---- MODULE Spec2Model ----
(***************************************************************************)
(* create-release-hub: the scaffolding CLI.  Two entry scripts live in the *)
(* repository: the interactive one (src/unnamed/part_001) and the older    *)
(* non-interactive one (src/index.js).  A run executes one of them.        *)
(*                                                                         *)
(* Strings that the code inspects character by character (packageManager,  *)
(* the user-agent hint) are sequences of one-character strings.  Paths are *)
(* sequences of their "/"-separated components.  JSON values are records   *)
(* [t, v] with t the JavaScript type and v the characters of the value.    *)
(***************************************************************************)
EXTENDS Integers, Sequences, FiniteSets, TLC

VARIABLES
    entry,          \* which script runs: "part_001" or "index"
    lockfiles,      \* lockfile names present in cwd
    files,          \* other file names present in cwd (config candidates)
    manifest,       \* ./package.json: absent, unparseable, or parsed
    ua,             \* process.env.npm_config_user_agent
    pc,             \* position of the top-level script
    ret,            \* value returned by the last helper call (helper runs)
    hasConfigRet,   \* what hasConfig returned in this run ("unset" before)
    isInstalled,    \* what hasLib returned in this run ("unset" before)
    pm,             \* what detectPackageManager returned (<<"?">> before)
    child,          \* install child process: none/running/exit0/exit1/exitnull/error
    reported,       \* TRUE once "installed successfully" was reported
    promptsShown,   \* number of prompts shown so far
    cancelledAt,    \* prompt at which the user cancelled ("none" if not)
    textError,      \* TRUE while a text prompt displays its validation error
    askTargets,     \* answer of the target multiselect (selection order)
    idx,            \* position of the path loop in askTargets
    targetsPath,    \* paths collected by the path loop, in insertion order
    syncGroups,     \* groups collected by the sync-group loop
    config,         \* the module-level config object
    writes,         \* number of writeFile calls made
    written,        \* what the output file holds ([present |-> FALSE] if none)
    exitCode,       \* process exit status (-1 while the process is alive)
    shouldInstall,  \* answer of the install confirm ("unset" before)
    typed,          \* input last submitted to a path prompt
    syncMode,       \* answer of the sync-mode select ("unset" before)
    group,          \* answer of the last sync-group multiselect
    addMore,        \* loop variable of the sync-group loop
    runs            \* number of runs started in this directory

vars == <<entry, lockfiles, files, manifest, ua, pc, ret, hasConfigRet,
          isInstalled, pm, child, reported, promptsShown, cancelledAt,
          textError, askTargets, idx, targetsPath, syncGroups, config, writes, written,
          exitCode, shouldInstall, typed, syncMode, group, addMore, runs>>

envVars == <<entry, lockfiles, manifest, ua>>
callVars == <<hasConfigRet, isInstalled, pm>>
promptVars == <<promptsShown, cancelledAt, textError>>
answerVars == <<askTargets, idx, targetsPath, syncGroups>>
auxVars == <<shouldInstall, typed, syncMode, group, addMore, runs>>

----------------------------------------------------------------------------
(* Bounds *)

MaxGroups == 2      \* most sync groups the user creates
MaxRuns == 2        \* most runs of the tool in the same directory

----------------------------------------------------------------------------
(* Strings and JSON values *)

S_npm == <<"n", "p", "m">>
S_yarn == <<"y", "a", "r", "n">>
S_pnpm == <<"p", "n", "p", "m">>
S_bun == <<"b", "u", "n">>

JStr(s) == [t |-> "string", v |-> s]
JNum(s) == [t |-> "number", v |-> s]
JObj == [t |-> "object", v |-> <<>>]
JUndef == [t |-> "undefined", v |-> <<>>]

\* JavaScript truthiness of a JSON value
Truthy(j) ==
    CASE j.t = "string" -> j.v # <<>>
      [] j.t = "number" -> j.v # <<"0">>
      [] j.t = "object" -> TRUE
      [] OTHER -> FALSE

\* String.prototype.startsWith
startsWith(s, p) == Len(s) >= Len(p) /\ SubSeq(s, 1, Len(p)) = p

\* s.split("@")[0]: the characters before the first "@" (all of s if none)
RECURSIVE splitAt0(_)
splitAt0(s) ==
    IF s = <<>> \/ Head(s) = "@" THEN <<>>
    ELSE <<Head(s)>> \o splitAt0(Tail(s))

----------------------------------------------------------------------------
(* Program constants *)

NAME == "release-hub"

Part001 == "part_001"
IndexJs == "index"
Entries == {Part001, IndexJs}

\* CONFIG_FILE, as path components; "." leads both
\* a variant that writes to a name the pattern does not cover
CONFIG_FILE_offPattern(e) == <<".", "release-hub.yaml">>

CONFIG_FILE(e) ==
    IF e = Part001 THEN <<".", ".release-hub.json">>
    ELSE <<".", "release-hub.json">>

\* CONFIG_PATTERN "{.,}release-hub{,.config}.{json,js,cjs,mjs,ts,cts,mts}":
\* the names its brace expansion matches
CONFIG_PATTERN ==
    {a \o "release-hub" \o b \o "." \o x :
        a \in {".", ""}, b \in {"", ".config"},
        x \in {"json", "js", "cjs", "mjs", "ts", "cts", "mts"}}

\* PACKAGE_INSTALL: package manager -> <<command, arguments>>
PACKAGE_INSTALL ==
    (S_npm :> <<"npm", <<"i", "-D", NAME>>>>) @@
    (S_yarn :> <<"yarn", <<"add", "-D", NAME>>>>) @@
    (S_pnpm :> <<"pnpm", <<"add", "-D", NAME>>>>) @@
    (S_bun :> <<"bun", <<"i", "-D", NAME>>>>)

Targets == {"node", "jsr", "deno", "webext"}

defaultTargetPaths ==
    [t \in Targets |->
        CASE t = "node" -> <<".", "package.json">>
          [] t = "jsr" -> <<".", "jsr.json">>
          [] t = "deno" -> <<".", "deno.json">>
          [] t = "webext" -> <<".", "manifest.json">>]

----------------------------------------------------------------------------
(* The environment a run starts in *)

LockfileNames ==
    {"pnpm-lock.yaml", "yarn.lock", "bun.lock", "bun.lockb", "package-lock.json"}

\* values the manifest's packageManager field takes
PackageManagerFields ==
    { JUndef,
      JStr(<<>>),
      JStr(<<"y", "a", "r", "n", "@", "3">>),
      JStr(<<"p", "n", "p", "m">>),
      JStr(<<"b", "u", "n", "@", "1">>),
      JStr(<<"n", "p", "m", "@", "9">>),
      JStr(<<"d", "e", "n", "o", "@", "1">>),
      JStr(<<"@", "s", "/", "x", "@", "1">>),
      JNum(<<"1">>),
      JObj }

\* values of dependencies / devDependencies: undefined, or a mapping given
\* as its set of <<key, value>> entries
DepMaps ==
    { JUndef,
      [t |-> "object", v |-> {}],
      [t |-> "object", v |-> {<<"left-pad", JStr(<<"1">>)>>}],
      [t |-> "object", v |-> {<<NAME, JStr(<<"1">>)>>}],
      [t |-> "object", v |-> {<<NAME, JStr(<<>>)>>}],
      [t |-> "object", v |-> {<<NAME, JNum(<<"0">>)>>}] }

\* values of the manifest's top-level 'release-hub' field
ReleaseHubFields == {JUndef, JObj, JStr(<<>>)}

ParsedManifest(p, r, d, dd) ==
    [state |-> "ok", packageManager |-> p, releaseHub |-> r,
     dependencies |-> d, devDependencies |-> dd]

NoManifest(st) ==
    [state |-> st, packageManager |-> JUndef, releaseHub |-> JUndef,
     dependencies |-> JUndef, devDependencies |-> JUndef]

\* absent: the file does not exist; unparseable: JSON.parse throws
AllManifests ==
    {NoManifest("absent"), NoManifest("unparseable")} \cup
    {ParsedManifest(p, r, d, dd) :
        p \in PackageManagerFields, r \in ReleaseHubFields,
        d \in DepMaps, dd \in DepMaps}

UserAgents ==
    { JUndef,
      JStr(<<"p", "n", "p", "m", "/", "8">>),
      JStr(<<"y", "a", "r", "n", "/", "1">>),
      JStr(<<"b", "u", "n", "/", "1">>),
      JStr(<<"n", "p", "m", "/", "9">>),
      JStr(<<"n", "o", "d", "e">>) }

\* names of files that may lie in cwd next to the manifest
CandidateFiles ==
    {".release-hub.json", "release-hub.config.ts", "release-hub.yaml"}

----------------------------------------------------------------------------
(* Helpers of the scripts *)

\* exists(cwd, name) for the lockfile probes
exists(lf, name) == name \in lf

\* JSON.parse(await readFile(PACKAGE)) succeeded
Readable(m) == m.state = "ok"

\* obj?.[key] on a dependencies mapping
Lookup(d, key) ==
    IF d.t # "object" THEN JUndef
    ELSE IF \E kv \in d.v : kv[1] = key
         THEN (CHOOSE kv \in d.v : kv[1] = key)[2]
         ELSE JUndef

\* the user-agent fallback of detectPackageManager
AgentFallback(u) ==
    IF u.t = "string" /\ startsWith(u.v, S_pnpm) THEN S_pnpm
    ELSE IF u.t = "string" /\ startsWith(u.v, S_yarn) THEN S_yarn
    ELSE IF u.t = "string" /\ startsWith(u.v, S_bun) THEN S_bun
    ELSE IF u.t = "string" /\ startsWith(u.v, S_npm) THEN S_npm
    ELSE S_npm

\* a variant that asks the user agent before the manifest
ManifestFallback_agentFirst(m, u) ==
    IF u.t = "string"
       /\ \E k \in {S_pnpm, S_yarn, S_bun, S_npm} : startsWith(u.v, k)
    THEN AgentFallback(u)
    ELSE IF Readable(m) /\ Truthy(m.packageManager) /\ m.packageManager.t = "string"
         THEN splitAt0(m.packageManager.v)
         ELSE S_npm

\* the manifest fallback: a truthy packageManager is split; on a value that
\* is not a string .split throws and the empty catch swallows it
ManifestFallback(m, u) ==
    IF Readable(m) /\ Truthy(m.packageManager) /\ m.packageManager.t = "string"
    THEN splitAt0(m.packageManager.v)
    ELSE AgentFallback(u)

\* a variant that probes package-lock.json first
detectPackageManager_npmFirst(lf, m, u) ==
    IF exists(lf, "package-lock.json") THEN S_npm
    ELSE IF exists(lf, "pnpm-lock.yaml") THEN S_pnpm
    ELSE IF exists(lf, "yarn.lock") THEN S_yarn
    ELSE IF exists(lf, "bun.lock") THEN S_bun
    ELSE IF exists(lf, "bun.lockb") THEN S_bun
    ELSE ManifestFallback(m, u)

detectPackageManager(lf, m, u) ==
    IF exists(lf, "pnpm-lock.yaml") THEN S_pnpm
    ELSE IF exists(lf, "yarn.lock") THEN S_yarn
    ELSE IF exists(lf, "bun.lock") THEN S_bun
    ELSE IF exists(lf, "bun.lockb") THEN S_bun
    ELSE IF exists(lf, "package-lock.json") THEN S_npm
    ELSE ManifestFallback(m, u)

\* glob(CONFIG_PATTERN, {cwd})
GlobMatches(fs) == fs \cap CONFIG_PATTERN

\* a variant that never looks into the manifest
hasConfig_globOnly(fs, m) == GlobMatches(fs) # {}

hasConfig(fs, m) ==
    IF GlobMatches(fs) # {} THEN TRUE
    ELSE IF Readable(m) THEN Truthy(m.releaseHub)
    ELSE FALSE

\* hasLib: "true"/"false", or "throws" where the read is not guarded
hasLib(e, m) ==
    IF ~Readable(m) THEN (IF e = Part001 THEN "false" ELSE "throws")
    ELSE IF Truthy(Lookup(m.dependencies, NAME))
            \/ Truthy(Lookup(m.devDependencies, NAME))
         THEN "true" ELSE "false"

----------------------------------------------------------------------------
(* Prompts *)

\* what a prompt resolves to: the cancel symbol, or the user's answer
Cancelled == [cancelled |-> TRUE, value |-> "cancel"]
Answer(v) == [cancelled |-> FALSE, value |-> v]

isCancel(result) == result.cancelled

NoExit == -1

\* a variant that calls process.exit() without a status
exitOnCancel_noStatus(result) == IF isCancel(result) THEN 0 ELSE NoExit

\* exitOnCancel: the status the process exits with, NoExit if it goes on
exitOnCancel(result) == IF isCancel(result) THEN 1 ELSE NoExit

\* what the user answers at the target multiselect: the values chosen, in
\* selection order
TargetPicks ==
    { <<>>, <<"node">>, <<"webext">>, <<"node", "deno">>, <<"deno", "node">>,
      <<"jsr", "node", "deno">> }

\* what the user answers at a sync-group multiselect
GroupPicks ==
    { <<>>, <<"node">>, <<"node", "deno">>, <<"deno", "node">>,
      <<"webext", "jsr", "node">> }

\* what the user may type at the path prompt of target t
PathInputs(t) ==
    { defaultTargetPaths[t], <<"..", "x">>, <<>>, <<"x">>, <<"", "x">> }

\* a variant that accepts any input that is not empty
validate_nonEmpty(v) == v # <<>>

\* /^(\.\/|\.\.\/)/.test(v): TRUE when the input is accepted
validate(v) == Len(v) >= 2 /\ v[1] \in {".", ".."}

\* group.size of what multiselect resolved to: an Array has no 'size'
SizeOf(g) == [t |-> "undefined", n |-> 0]

\* x < 2: undefined converts to NaN, and NaN < 2 is false
LessThan2(x) == x.t = "number" /\ x.n < 2

\* !group || group.size < 2 (an Array is always truthy)
Rejected(g) == LessThan2(SizeOf(g))

----------------------------------------------------------------------------
(* The config object and the output file *)

CONFIG_SCHEMA_URL ==
    "https://cdn.jsdelivr.net/npm/release-hub@latest/schema/release-hub.schema.json"

NoSync == [t |-> "undefined", b |-> FALSE, groups |-> <<>>]

\* a variant that stores the opposite boolean
SyncBool_inverted(b) == [t |-> "boolean", b |-> ~b, groups |-> <<>>]

\* config.sync = true / config.sync = false
SyncBool(b) == [t |-> "boolean", b |-> b, groups |-> <<>>]
SyncGroups(gs) == [t |-> "array", b |-> FALSE, groups |-> gs]

\* the module-level 'config' object as first constructed; keys holds the
\* property names in insertion order
InitialConfig(e) ==
    [keys |-> IF e = Part001 THEN <<"$schema">> ELSE <<"CONFIG_SCHEMA_URL">>,
     schema |-> CONFIG_SCHEMA_URL,
     defaultReleaseType |-> "",
     targets |-> <<>>,
     targetsPath |-> <<>>,
     sync |-> NoSync]

\* config[k] = ...: a new property is appended to the insertion order
AddKey(c, k) ==
    IF \E i \in DOMAIN c.keys : c.keys[i] = k THEN c.keys
    ELSE Append(c.keys, k)

NoFile == [present |-> FALSE, content |-> InitialConfig(Part001), newline |-> FALSE]

\* the directory entry a path names: "." components drop out
RECURSIVE Resolve(_)
Resolve(p) ==
    IF p = <<>> THEN <<>>
    ELSE IF Head(p) = "." THEN Resolve(Tail(p))
    ELSE <<Head(p)>> \o Resolve(Tail(p))

FileName(p) == Resolve(p)[Len(Resolve(p))]

----------------------------------------------------------------------------
(* Initial states *)

NoRet == [fn |-> "none", pm |-> <<>>, b |-> ""]

\* the content of a path prompt's input: nothing submitted yet, or v
NoInput == [submitted |-> FALSE, value |-> <<>>]
Submitted(v) == [submitted |-> TRUE, value |-> v]

Fresh ==
    /\ ret = NoRet
    /\ hasConfigRet = "unset"
    /\ isInstalled = "unset"
    /\ pm = <<"?">>
    /\ child = "none"
    /\ reported = FALSE
    /\ promptsShown = 0
    /\ cancelledAt = "none"
    /\ textError = FALSE
    /\ askTargets = <<>>
    /\ idx = 1
    /\ targetsPath = <<>>
    /\ syncGroups = <<>>
    /\ config = InitialConfig(entry)
    /\ writes = 0
    /\ written = NoFile
    /\ exitCode = NoExit
    /\ shouldInstall = "unset"
    /\ typed = NoInput
    /\ syncMode = "unset"
    /\ group = <<>>
    /\ addMore = TRUE

Env(lf, fs, m, u) == [lockfiles |-> lf, files |-> fs, manifest |-> m, ua |-> u]

BareManifest == ParsedManifest(JUndef, JUndef, JUndef, JUndef)

\* projects a run is started in
RunEnvs ==
    { Env({}, {}, NoManifest("absent"), JUndef),
      Env({}, {"release-hub.yaml"}, NoManifest("unparseable"),
          JStr(<<"b", "u", "n", "/", "1">>)),
      Env({}, {".release-hub.json"}, NoManifest("absent"), JUndef),
      Env({"yarn.lock"}, {}, ParsedManifest(JUndef, JObj, JUndef, JUndef), JUndef),
      Env({"yarn.lock", "package-lock.json"}, {}, BareManifest, JUndef),
      Env({}, {},
          ParsedManifest(JUndef, JUndef, JUndef,
                         [t |-> "object", v |-> {<<NAME, JStr(<<"1">>)>>}]),
          JUndef),
      Env({}, {},
          ParsedManifest(JStr(<<"d", "e", "n", "o", "@", "1">>), JUndef,
                         [t |-> "object", v |-> {<<NAME, JStr(<<>>)>>}], JUndef),
          JUndef) }

Init ==
    /\ entry \in Entries
    /\ \E e \in RunEnvs :
        /\ lockfiles = e.lockfiles
        /\ files = e.files
        /\ manifest = e.manifest
        /\ ua = e.ua
    /\ pc = "start"
    /\ runs = 1
    /\ Fresh

----------------------------------------------------------------------------
(* Ends of the top-level script *)

\* the script ran off its end, or the catch logged the error: the process
\* exits with status 0 once nothing is pending; a running child keeps it alive
Finish(childNow) ==
    /\ pc' = IF childNow = "running" THEN "end" ELSE "exited"
    /\ exitCode' = IF childNow = "running" THEN NoExit ELSE 0

\* process.exit(code)
Exit(code) ==
    /\ pc' = "exited"
    /\ exitCode' = code

\* a prompt resolved to 'result' at step 'at': exitOnCancel(result)
ExitsOnCancel(result, at) ==
    /\ exitOnCancel(result) # NoExit
    /\ Exit(exitOnCancel(result))
    /\ cancelledAt' = at

----------------------------------------------------------------------------
(* The top-level script *)

\* a variant that reports the existing config and goes on
Gate_noThrow ==
    /\ pc = "start"
    /\ hasConfigRet' = IF hasConfig(files, manifest) THEN "true" ELSE "false"
    /\ pc' = "hasLib"
    /\ UNCHANGED <<envVars, files, ret, isInstalled, pm, child, reported,
                   promptVars, answerVars, auxVars, config, writes, written,
                   exitCode>>

\* if (await hasConfig()) throw new Error(...)
Gate ==
    /\ pc = "start"
    /\ hasConfigRet' = IF hasConfig(files, manifest) THEN "true" ELSE "false"
    /\ IF hasConfig(files, manifest)
       THEN Finish(child)
       ELSE pc' = "hasLib" /\ exitCode' = exitCode
    /\ UNCHANGED <<envVars, files, ret, isInstalled, pm, child, reported,
                   promptVars, answerVars, auxVars, config, writes, written>>

\* const isInstalled = await hasLib(); if not, detectPackageManager();
\* index.js goes on to spawn the install without waiting for it
CheckLib ==
    /\ pc = "hasLib"
    /\ LET lib == hasLib(entry, manifest)
           mgr == detectPackageManager(lockfiles, manifest, ua)
       IN  CASE lib = "throws" ->
                  /\ Finish(child)
                  /\ UNCHANGED <<isInstalled, pm, child, reported>>
             [] lib = "true" ->
                  /\ isInstalled' = "true"
                  /\ pc' = IF entry = Part001 THEN "releaseType" ELSE "write"
                  /\ UNCHANGED <<pm, child, reported, exitCode>>
             [] lib = "false" /\ entry = Part001 ->
                  /\ isInstalled' = "false"
                  /\ pm' = mgr
                  /\ pc' = "confirm"
                  /\ UNCHANGED <<child, reported, exitCode>>
             [] lib = "false" /\ entry = IndexJs ->
                  /\ isInstalled' = "false"
                  /\ pm' = mgr
                  /\ IF mgr \in DOMAIN PACKAGE_INSTALL
                     THEN /\ child' = "running"
                          /\ reported' = TRUE
                          /\ pc' = "write"
                          /\ exitCode' = exitCode
                     ELSE /\ Finish(child)
                          /\ UNCHANGED <<child, reported>>
    /\ UNCHANGED <<envVars, files, ret, hasConfigRet, promptVars, answerVars,
                   auxVars, config, writes, written>>

\* confirm "Would you like to install ..."; yes starts spawnAsync
ConfirmInstall ==
    /\ pc = "confirm"
    /\ promptsShown' = promptsShown + 1
    /\ \E answer \in {Cancelled} \cup {Answer(b) : b \in BOOLEAN} :
        /\ shouldInstall' = IF answer.cancelled THEN "cancel"
                             ELSE IF answer.value THEN "yes" ELSE "no"
        /\ \/ /\ ExitsOnCancel(answer, "confirm")
              /\ UNCHANGED child
           \/ /\ exitOnCancel(answer) = NoExit
              /\ cancelledAt' = cancelledAt
              /\ IF ~answer.cancelled /\ answer.value = FALSE
                 THEN pc' = "releaseType" /\ UNCHANGED <<child, exitCode>>
                 ELSE IF pm \in DOMAIN PACKAGE_INSTALL
                      THEN child' = "running" /\ pc' = "install"
                           /\ exitCode' = exitCode
                      ELSE Finish(child) /\ UNCHANGED child
    /\ UNCHANGED <<envVars, files, ret, callVars, reported, textError,
                   answerVars, typed, syncMode, group, addMore, runs, config,
                   writes, written>>

ChildOutcomes == {"exit0", "exit1", "exitnull", "error"}

\* what the script does when the child's 'exit' or 'error' event arrives
\* while spawnAsync is awaited: resolve on code 0, reject otherwise
spawnAsync(outcome) ==
    IF outcome = "exit0"
    THEN /\ reported' = TRUE
         /\ pc' = "releaseType"
         /\ exitCode' = exitCode
    ELSE /\ Finish(outcome)
         /\ reported' = reported

\* the child of index.js has no listeners: its exit is not looked at, and an
\* 'error' event is an uncaught exception
Unawaited(outcome) ==
    /\ reported' = reported
    /\ IF outcome = "error" THEN Exit(1)
       ELSE IF pc = "end" THEN Exit(0)
       ELSE UNCHANGED <<pc, exitCode>>

\* the install child process exits or fails to spawn
ChildEvent ==
    /\ child = "running"
    /\ \E outcome \in ChildOutcomes :
        /\ child' = outcome
        /\ IF entry = Part001 THEN spawnAsync(outcome) ELSE Unawaited(outcome)
    /\ UNCHANGED <<envVars, files, ret, callVars, promptVars, answerVars,
                   auxVars, config, writes, written>>

ReleaseTypes == {"major", "minor", "patch"}

\* select "Select default release type:"
SelectReleaseType ==
    /\ pc = "releaseType"
    /\ promptsShown' = promptsShown + 1
    /\ \E defaultReleaseType \in {Cancelled} \cup {Answer(r) : r \in ReleaseTypes} :
        \/ /\ ExitsOnCancel(defaultReleaseType, "releaseType")
           /\ UNCHANGED config
        \/ /\ exitOnCancel(defaultReleaseType) = NoExit
           /\ ~defaultReleaseType.cancelled
           /\ config' = [config EXCEPT
                            !.keys = AddKey(config, "defaultReleaseType"),
                            !.defaultReleaseType = defaultReleaseType.value]
           /\ pc' = "targets"
           /\ UNCHANGED <<cancelledAt, exitCode>>
    /\ UNCHANGED <<envVars, files, ret, callVars, child, reported, textError,
                   answerVars, auxVars, writes, written>>

\* a variant that loses the last selected target
TargetsObject_dropLast(sel) == [i \in 1..(Len(sel) - 1) |-> <<sel[i], TRUE>>]

\* Object.fromEntries(askTargets.map((t) => [t, true]))
TargetsObject(sel) == [i \in DOMAIN sel |-> <<sel[i], TRUE>>]

\* multiselect "Enable version targets:"; with nothing selected the path
\* loop has no iteration and config.targetsPath is set at once
SelectTargets ==
    /\ pc = "targets"
    /\ promptsShown' = promptsShown + 1
    /\ \E answer \in {Cancelled} \cup {Answer(sel) : sel \in TargetPicks} :
        \/ /\ ExitsOnCancel(answer, "targets")
           /\ UNCHANGED <<config, askTargets, idx>>
        \/ /\ exitOnCancel(answer) = NoExit
           /\ ~answer.cancelled
           /\ askTargets' = answer.value
           /\ idx' = 1
           /\ IF answer.value = <<>>
              THEN /\ config' = [config EXCEPT
                                    !.keys = Append(AddKey(config, "targets"),
                                                    "targetsPath"),
                                    !.targets = TargetsObject(answer.value),
                                    !.targetsPath = <<>>]
                   /\ pc' = "syncMode"
              ELSE /\ config' = [config EXCEPT
                                    !.keys = AddKey(config, "targets"),
                                    !.targets = TargetsObject(answer.value)]
                   /\ pc' = "path"
           /\ UNCHANGED <<cancelledAt, exitCode>>
    /\ UNCHANGED <<envVars, files, ret, callVars, child, reported, textError,
                   targetsPath, syncGroups, auxVars, writes, written>>

\* targetsPath[t] = r || defaultPath
Recorded(r, t) == IF r # <<>> THEN r ELSE defaultTargetPaths[t]

\* text "Path for t:" of the loop over askTargets; an input that validate
\* refuses leaves the prompt open with its error shown
TextPath ==
    /\ pc = "path"
    /\ promptsShown' = IF textError THEN promptsShown ELSE promptsShown + 1
    /\ LET t == askTargets[idx] IN
       \E r \in {Cancelled} \cup {Answer(v) : v \in PathInputs(t)} :
        \/ /\ ExitsOnCancel(r, "path")
           /\ UNCHANGED <<config, idx, targetsPath, textError, typed>>
        \/ /\ exitOnCancel(r) = NoExit
           /\ ~r.cancelled
           /\ ~validate(r.value)
           /\ typed' = Submitted(r.value)
           /\ textError' = TRUE
           /\ UNCHANGED <<config, idx, targetsPath, pc, cancelledAt, exitCode>>
        \/ /\ exitOnCancel(r) = NoExit
           /\ ~r.cancelled
           /\ validate(r.value)
           /\ typed' = Submitted(r.value)
           /\ textError' = FALSE
           /\ targetsPath' = Append(targetsPath, <<t, Recorded(r.value, t)>>)
           /\ idx' = idx + 1
           /\ IF idx = Len(askTargets)
              THEN /\ config' = [config EXCEPT
                                    !.keys = AddKey(config, "targetsPath"),
                                    !.targetsPath = targetsPath']
                   /\ pc' = "syncMode"
              ELSE UNCHANGED <<config, pc>>
           /\ UNCHANGED <<cancelledAt, exitCode>>
    /\ UNCHANGED <<envVars, files, ret, callVars, child, reported, askTargets,
                   syncGroups, shouldInstall, syncMode, group, addMore, runs,
                   writes, written>>

SyncModes == {"all", "none", "groups"}

\* select "How should versions be synchronized?"
SelectSyncMode ==
    /\ pc = "syncMode"
    /\ promptsShown' = promptsShown + 1
    /\ \E answer \in {Cancelled} \cup {Answer(m) : m \in SyncModes} :
        \/ /\ ExitsOnCancel(answer, "syncMode")
           /\ UNCHANGED <<config, syncMode>>
        \/ /\ exitOnCancel(answer) = NoExit
           /\ ~answer.cancelled
           /\ syncMode' = answer.value
           /\ IF answer.value = "groups"
              THEN pc' = "group" /\ UNCHANGED config
              ELSE /\ config' = [config EXCEPT
                                    !.keys = AddKey(config, "sync"),
                                    !.sync = SyncBool(answer.value = "all")]
                   /\ pc' = "write"
           /\ UNCHANGED <<cancelledAt, exitCode>>
    /\ UNCHANGED <<envVars, files, ret, callVars, child, reported, textError,
                   answerVars, shouldInstall, typed, group, addMore, runs,
                   writes, written>>

\* multiselect "Select targets to sync together:" of the while loop
SelectGroup ==
    /\ pc = "group"
    /\ promptsShown' = promptsShown + 1
    /\ \E answer \in {Cancelled} \cup {Answer(g) : g \in GroupPicks} :
        \/ /\ ExitsOnCancel(answer, "group")
           /\ UNCHANGED <<syncGroups, group>>
        \/ /\ exitOnCancel(answer) = NoExit
           /\ ~answer.cancelled
           /\ group' = answer.value
           /\ IF Rejected(answer.value)
              THEN UNCHANGED <<syncGroups, pc>>
              ELSE /\ syncGroups' = Append(syncGroups, answer.value)
                   /\ pc' = "again"
           /\ UNCHANGED <<cancelledAt, exitCode>>
    /\ UNCHANGED <<envVars, files, ret, callVars, child, reported, textError,
                   askTargets, idx, targetsPath, shouldInstall, typed, syncMode,
                   addMore, runs, config, writes, written>>

\* a variant whose loop goes on when addMore is false
LoopAgain_inverted(more) == ~more

\* while (addMore)
LoopAgain(more) == more

\* confirm "Add another sync group?"; declining leaves the loop and sets
\* config.sync = syncGroups
ConfirmAgain ==
    /\ pc = "again"
    /\ promptsShown' = promptsShown + 1
    /\ \E again \in {Cancelled} \cup {Answer(b) : b \in BOOLEAN} :
        \/ /\ ExitsOnCancel(again, "again")
           /\ UNCHANGED <<config, addMore>>
        \/ /\ exitOnCancel(again) = NoExit
           /\ ~again.cancelled
           /\ addMore' = again.value
           /\ IF LoopAgain(addMore')
              THEN /\ Len(syncGroups) < MaxGroups
                   /\ pc' = "group"
                   /\ UNCHANGED config
              ELSE /\ config' = [config EXCEPT
                                    !.keys = AddKey(config, "sync"),
                                    !.sync = SyncGroups(syncGroups)]
                   /\ pc' = "write"
           /\ UNCHANGED <<cancelledAt, exitCode>>
    /\ UNCHANGED <<envVars, files, ret, callVars, child, reported, textError,
                   answerVars, shouldInstall, typed, syncMode, group, runs,
                   writes, written>>

\* await writeFile(CONFIG_FILE, JSON.stringify(config, null, 2) ...): the
\* write succeeds, or fails and the catch logs the error
WriteConfig ==
    /\ pc = "write"
    /\ writes' = writes + 1
    /\ \E ok \in BOOLEAN :
        IF ok
        THEN /\ written' = [present |-> TRUE, content |-> config,
                            newline |-> (entry = Part001)]
             /\ files' = files \cup {FileName(CONFIG_FILE(entry))}
        ELSE UNCHANGED <<written, files>>
    /\ Finish(child)
    /\ UNCHANGED <<envVars, ret, callVars, child, reported, promptVars,
                   answerVars, auxVars, config>>

Next ==
    \/ Gate
    \/ CheckLib
    \/ ConfirmInstall
    \/ ChildEvent
    \/ SelectReleaseType
    \/ SelectTargets
    \/ TextPath
    \/ SelectSyncMode
    \/ SelectGroup
    \/ ConfirmAgain
    \/ WriteConfig

Spec == Init /\ [][Next]_vars

\* the user answers no at "Add another sync group?"
Decline == ConfirmAgain /\ addMore' = FALSE /\ cancelledAt' = cancelledAt

\* the run with a user who answers every prompt put to them and who, asked
\* often enough, declines another group; the write is started once reached
SpecLive ==
    /\ Spec
    /\ WF_vars(SelectGroup)
    /\ SF_vars(Decline)
    /\ WF_vars(WriteConfig)

\* the process has exited and one of the scripts is started again in the
\* same directory: module state is constructed anew, the directory stays
Rerun ==
    /\ pc = "exited"
    /\ runs < MaxRuns
    /\ runs' = runs + 1
    /\ entry' \in Entries
    /\ pc' = "start"
    /\ ret' = NoRet
    /\ hasConfigRet' = "unset"
    /\ isInstalled' = "unset"
    /\ pm' = <<"?">>
    /\ child' = "none"
    /\ reported' = FALSE
    /\ promptsShown' = 0
    /\ cancelledAt' = "none"
    /\ textError' = FALSE
    /\ askTargets' = <<>>
    /\ idx' = 1
    /\ targetsPath' = <<>>
    /\ syncGroups' = <<>>
    /\ config' = InitialConfig(entry')
    /\ writes' = 0
    /\ exitCode' = NoExit
    /\ shouldInstall' = "unset"
    /\ typed' = NoInput
    /\ syncMode' = "unset"
    /\ group' = <<>>
    /\ addMore' = TRUE
    /\ UNCHANGED <<lockfiles, manifest, ua, files, written>>

NextRerun ==
    \/ Next
    \/ Rerun

SpecRerun == Init /\ [][NextRerun]_vars

----------------------------------------------------------------------------
(* The helpers called on their own, over all the projects they tell apart *)

FnEnvs ==
    {Env(lf, {}, m, u) :
        lf \in SUBSET LockfileNames,
        m \in {NoManifest("absent"), NoManifest("unparseable")} \cup
              {ParsedManifest(p, JUndef, JUndef, JUndef) : p \in PackageManagerFields},
        u \in UserAgents}
    \cup
    {Env({}, {}, ParsedManifest(JUndef, JUndef, d, dd), JUndef) :
        d \in DepMaps, dd \in DepMaps}
    \cup
    {Env({}, fs, m, JUndef) :
        fs \in SUBSET CandidateFiles,
        m \in {NoManifest("absent"), NoManifest("unparseable")} \cup
              {ParsedManifest(JUndef, r, JUndef, JUndef) : r \in ReleaseHubFields}}

InitFn ==
    /\ entry \in Entries
    /\ \E e \in FnEnvs :
        /\ lockfiles = e.lockfiles
        /\ files = e.files
        /\ manifest = e.manifest
        /\ ua = e.ua
    /\ pc = "fn"
    /\ runs = 1
    /\ Fresh

Returns(r) ==
    /\ pc = "fn"
    /\ pc' = "returned"
    /\ ret' = r
    /\ UNCHANGED <<envVars, files, callVars, child, reported, promptVars,
                   answerVars, auxVars, config, writes, written, exitCode>>

CallDetectPackageManager ==
    Returns([fn |-> "detectPackageManager",
             pm |-> detectPackageManager(lockfiles, manifest, ua), b |-> ""])

CallHasConfig ==
    Returns([fn |-> "hasConfig", pm |-> <<>>,
             b |-> IF hasConfig(files, manifest) THEN "true" ELSE "false"])

CallHasLib ==
    Returns([fn |-> "hasLib", pm |-> <<>>, b |-> hasLib(entry, manifest)])

NextFn ==
    \/ CallDetectPackageManager
    \/ CallHasConfig
    \/ CallHasLib

SpecFn == InitFn /\ [][NextFn]_vars

----------------------------------------------------------------------------
(* Claims about a run (Spec) *)

FailedOutcomes == {"exit1", "exitnull", "error"}

OutputName == FileName(CONFIG_FILE(entry))

\* C1: the config file is written at most once, and whenever it has been
\* written, hasConfig returned false, the install child (if any) has exited
\* with code 0 and no prompt was cancelled; nothing is written after a
\* failed or during a still-running step.
C1_WriteOnceAfterSuccess ==
    /\ writes <= 1
    /\ writes >= 1 =>
        /\ hasConfigRet = "false"
        /\ child \in {"none", "exit0"}
        /\ cancelledAt = "none"

NoPromptAfterCancel == cancelledAt # "none" => UNCHANGED promptsShown

\* C2: once the user has cancelled at a prompt, the process has exited with
\* a nonzero status, writeFile was never called, the output file is absent,
\* and no further prompt is shown.
C2_CancelExits ==
    /\ [](cancelledAt # "none" =>
            /\ pc = "exited"
            /\ exitCode # NoExit /\ exitCode # 0
            /\ writes = 0
            /\ ~written.present
            /\ OutputName \notin files)
    /\ [][NoPromptAfterCancel]_vars

C2_Witness ==
    /\ cancelledAt = "again"
    /\ pc = "exited"
    /\ exitCode = 1
    /\ Len(syncGroups) = 2

\* C3: when hasConfig returned true, the run has stopped with no install
\* child spawned, no prompt shown and no write made.
C3_ExistingConfigAborts ==
    hasConfigRet = "true" =>
        /\ pc = "exited"
        /\ child = "none"
        /\ promptsShown = 0
        /\ writes = 0
        /\ ~written.present

C3_Witness ==
    /\ hasConfigRet = "true"
    /\ pc = "exited"
    /\ GlobMatches(files) = {}
    /\ Truthy(manifest.releaseHub)

NothingWhileInstalling ==
    child' = "running" =>
        /\ ~reported'
        /\ writes' = 0
        /\ child = "running" => UNCHANGED promptsShown

\* C4: while the install child is running nothing has been reported as
\* installed, nothing is written, and no prompt is shown.
C4_InstallBlocking == [][NothingWhileInstalling]_vars

NoPromptAfterFailure == child \in FailedOutcomes => UNCHANGED promptsShown

\* C5: once the install child has exited with a nonzero or null code or has
\* failed to spawn, the config file is not written in this run and no
\* prompt is shown from then on.
C5_FailedInstallAborts ==
    /\ [](child \in FailedOutcomes => writes = 0 /\ ~written.present)
    /\ [][NoPromptAfterFailure]_vars

\* C6: when the process has exited, its status is 0 exactly when the config
\* file was written.
C6_ExitStatus ==
    pc = "exited" => (exitCode = 0 <=> written.present)

----------------------------------------------------------------------------
(* Claims about the helpers (SpecFn) *)

LockOrder ==
    <<"pnpm-lock.yaml", "yarn.lock", "bun.lock", "bun.lockb", "package-lock.json">>

LockManager == <<S_pnpm, S_yarn, S_bun, S_bun, S_npm>>

Detected == ret.fn = "detectPackageManager"

\* C7: with at least one lockfile present, detectPackageManager returns the
\* manager of the first present lockfile in the order pnpm, yarn, bun (new),
\* bun (legacy), npm, whatever the manifest and the user agent say.
C7_LockfilePriority ==
    (Detected /\ lockfiles # {}) =>
        \E i \in DOMAIN LockOrder :
            /\ LockOrder[i] \in lockfiles
            /\ \A j \in 1..(i - 1) : LockOrder[j] \notin lockfiles
            /\ ret.pm = LockManager[i]

C7_Witness ==
    /\ Detected
    /\ lockfiles = {"yarn.lock", "bun.lockb", "package-lock.json"}
    /\ manifest.packageManager = JStr(<<"n", "p", "m", "@", "9">>)
    /\ ua = JStr(<<"p", "n", "p", "m", "/", "8">>)
    /\ ret.pm = S_yarn

\* the characters of s before its first "@", all of s if it has none
BeforeAt(s) ==
    IF \E i \in DOMAIN s : s[i] = "@"
    THEN SubSeq(s, 1, (CHOOSE i \in DOMAIN s :
                          s[i] = "@" /\ \A j \in 1..(i - 1) : s[j] # "@") - 1)
    ELSE s

KnownManagers == {S_pnpm, S_yarn, S_bun, S_npm}

IsPrefix(k, s) == Len(k) <= Len(s) /\ \A i \in DOMAIN k : s[i] = k[i]

\* the result the user-agent hint and the npm default give
ByAgent(r) ==
    IF ua.t = "string" /\ \E k \in KnownManagers : IsPrefix(k, ua.v)
    THEN IsPrefix(r, ua.v) /\ r \in KnownManagers
    ELSE r = S_npm

\* C8 as stated: with no lockfile, a readable manifest with a truthy
\* packageManager field gives the text of that field before "@"; otherwise
\* the user agent decides, and npm is the default.
C8_FallbackAsStated ==
    (Detected /\ lockfiles = {}) =>
        IF Readable(manifest) /\ Truthy(manifest.packageManager)
        THEN ret.pm = BeforeAt(manifest.packageManager.v)
        ELSE ByAgent(ret.pm)

\* C8 amended: the manifest field decides only when it is a truthy string;
\* a truthy field that is not a string is passed over like an absent one.
C8_Fallback ==
    (Detected /\ lockfiles = {}) =>
        IF /\ Readable(manifest)
           /\ Truthy(manifest.packageManager)
           /\ manifest.packageManager.t = "string"
        THEN ret.pm = BeforeAt(manifest.packageManager.v)
        ELSE ByAgent(ret.pm)

C8_Witness ==
    /\ Detected
    /\ lockfiles = {}
    /\ manifest.packageManager = JStr(<<"y", "a", "r", "n", "@", "3">>)
    /\ ua = JStr(<<"p", "n", "p", "m", "/", "8">>)
    /\ ret.pm = S_yarn

\* C9: whatever the lockfiles, the manifest and the user agent are,
\* detectPackageManager returns npm, yarn, pnpm or bun, a key of
\* PACKAGE_INSTALL.
C9_ClosedEnumeration ==
    Detected => (ret.pm \in KnownManagers /\ ret.pm \in DOMAIN PACKAGE_INSTALL)

HasKey(d) == d.t = "object" /\ \E kv \in d.v : kv[1] = NAME

\* C10: hasLib returns true exactly when 'release-hub' is a key of the
\* manifest's dependencies or devDependencies, whatever its value; with the
\* manifest absent or unparseable it returns false and does not throw.
C10_HasLibIffKey ==
    ret.fn = "hasLib" =>
        IF Readable(manifest)
        THEN ret.b = (IF HasKey(manifest.dependencies)
                         \/ HasKey(manifest.devDependencies)
                      THEN "true" ELSE "false")
        ELSE ret.b = "false"

\* a step in which the user submits a selection at the sync-group
\* multiselect (the prompt is shown and not cancelled)
GroupSubmitted ==
    /\ pc = "group"
    /\ promptsShown' # promptsShown
    /\ cancelledAt' = cancelledAt

GroupRule ==
    GroupSubmitted =>
        /\ IF Len(group') < 2
           THEN syncGroups' = syncGroups /\ pc' = "group"
           ELSE syncGroups' = Append(syncGroups, group') /\ pc' = "again"
        /\ \A i \in DOMAIN syncGroups' : Len(syncGroups'[i]) >= 2

\* C11: every selection submitted in the sync-group loop with fewer than 2
\* targets is rejected (syncGroups unchanged, "add another?" not asked, the
\* selection asked again) and every selection with 2 or more targets is
\* appended verbatim, so every collected group has at least 2 members.
C11_SmallGroupRejected == [][GroupRule]_vars

Distinct(g) == \A i, j \in DOMAIN g : g[i] = g[j] => i = j

Members(g) == {g[i] : i \in DOMAIN g}

Keys(obj) == {obj[i][1] : i \in DOMAIN obj}

\* C12: in every written config whose sync field is a list of groups, every
\* group has at least 2 distinct members, each of them a key of the
\* config's targets mapping.
C12_GroupsFromEnabledTargets ==
    (written.present /\ written.content.sync.t = "array") =>
        \A i \in DOMAIN written.content.sync.groups :
            LET g == written.content.sync.groups[i] IN
            /\ Len(g) >= 2
            /\ Distinct(g)
            /\ Members(g) \subseteq Keys(written.content.targets)

\* the property names of an object, in insertion order
KeySeq(obj) == [i \in DOMAIN obj |-> obj[i][1]]

\* C13: in every written config the keys of targetsPath are exactly the
\* enabled targets, i.e. the keys of targets (each mapped to true), one path
\* per selected target in selection order, also when nothing is selected.
C13_PathKeysAreTargets ==
    written.present =>
        LET c == written.content IN
        /\ KeySeq(c.targetsPath) = KeySeq(c.targets)
        /\ (entry = Part001 => KeySeq(c.targets) = askTargets)
        /\ \A i \in DOMAIN c.targets : c.targets[i][2] = TRUE
        /\ Distinct(KeySeq(c.targetsPath))

C13_Witness ==
    /\ written.present
    /\ entry = Part001
    /\ KeySeq(written.content.targetsPath) = <<"jsr", "node", "deno">>

DocumentedExample ==
    [keys |-> <<"$schema", "defaultReleaseType", "targets", "targetsPath", "sync">>,
     schema |-> "https://cdn.jsdelivr.net/npm/release-hub@latest/schema/release-hub.schema.json",
     defaultReleaseType |-> "minor",
     targets |-> << <<"node", TRUE>>, <<"deno", TRUE>> >>,
     targetsPath |-> << <<"node", <<".", "package.json">> >>,
                        <<"deno", <<".", "deno.json">> >> >>,
     sync |-> [t |-> "boolean", b |-> TRUE, groups |-> <<>>]]

\* C14: the config written by the interactive script is determined by the
\* answers and has exactly the keys $schema, defaultReleaseType, targets,
\* targetsPath, sync in that order; "all" gives sync = true and "none"
\* sync = false; the documented answers give the documented object.
C14_ConfigFromAnswers ==
    (written.present /\ entry = Part001) =>
        LET c == written.content IN
        /\ c.keys = <<"$schema", "defaultReleaseType", "targets",
                      "targetsPath", "sync">>
        /\ c.schema = DocumentedExample.schema
        /\ c.defaultReleaseType \in {"patch", "minor", "major"}
        /\ c.targets = [i \in DOMAIN askTargets |-> <<askTargets[i], TRUE>>]
        /\ c.targetsPath = targetsPath
        /\ syncMode = "all" => c.sync = [t |-> "boolean", b |-> TRUE, groups |-> <<>>]
        /\ syncMode = "none" => c.sync = [t |-> "boolean", b |-> FALSE, groups |-> <<>>]
        /\ syncMode = "groups" =>
               c.sync = [t |-> "array", b |-> FALSE, groups |-> syncGroups]
        /\ syncMode \in {"all", "none", "groups"}
        /\ (/\ c.defaultReleaseType = "minor"
            /\ askTargets = <<"node", "deno">>
            /\ targetsPath = DocumentedExample.targetsPath
            /\ syncMode = "all") => c = DocumentedExample

C14_Witness ==
    /\ written.present
    /\ entry = Part001
    /\ written.content = DocumentedExample

\* the directory entries that the config glob pattern matches, listed by
\* name and extension as the pattern spells them out
MatchesPattern(name) ==
    name \in {".release-hub.json", "release-hub.json", "release-hub.config.ts"}

\* C15: hasConfig returns true when a file matching the config pattern
\* exists, or else when the manifest is readable and has a truthy top-level
\* release-hub field; in every other case, a missing or unparseable
\* manifest included, it returns false and nothing is thrown.
C15_HasConfig ==
    ret.fn = "hasConfig" =>
        /\ ret.b \in {"true", "false"}
        /\ ret.b = "true" <=>
              \/ \E f \in files : MatchesPattern(f)
              \/ /\ manifest.state = "ok"
                 /\ manifest.releaseHub.t # "undefined"
                 /\ manifest.releaseHub # [t |-> "string", v |-> <<>>]

C15_Witness ==
    /\ ret.fn = "hasConfig"
    /\ ret.b = "true"
    /\ ~ \E f \in files : MatchesPattern(f)
    /\ manifest.state = "ok"

\* a child process is started in this step
Spawned == child = "none" /\ child' # "none"

\* the run goes on to its next step, which in the interactive script is
\* the first configuration prompt
Continues ==
    /\ pc' \notin {"end", "exited"}
    /\ entry = Part001 => pc' = "releaseType"

SpawnRule ==
    /\ Spawned => (isInstalled' = "false" /\ shouldInstall' = "yes")
    /\ child # "none" => child' # "none"
    /\ (pc = "hasLib" /\ isInstalled' = "true") =>
           (child' = "none" /\ Continues)
    /\ (pc = "confirm" /\ shouldInstall' = "no") =>
           (child' = "none" /\ Continues)

\* C16: the install child is spawned only when the library was reported
\* not installed and the user answered yes to the install confirmation;
\* when the library is installed or the answer is no, nothing is spawned
\* and the run goes on to the configuration prompts; a run spawns at most
\* one child.
C16_SpawnOnlyWhenAccepted == [][SpawnRule]_vars

\* a step in which the user submits new input at a path prompt
PathSubmitted ==
    /\ pc = "path"
    /\ typed'.submitted
    /\ typed' # typed

EmptyRule ==
    (PathSubmitted /\ typed'.value = <<>>) =>
        /\ textError' = FALSE
        /\ idx' = idx + 1
        /\ targetsPath' =
               Append(targetsPath,
                      <<askTargets[idx], defaultTargetPaths[askTargets[idx]]>>)

\* C17: when the user submits empty input for a target's path, the prompt
\* is accepted and the path recorded for that target is the built-in
\* default path of the target.
C17_EmptyInputTakesDefault == [][EmptyRule]_vars

\* the string starts with "./" or "../"
StartsRel(p) == Len(p) >= 2 /\ (p[1] = "." \/ p[1] = "..")

RelativeRule ==
    /\ written'.present =>
           \A i \in DOMAIN written'.content.targetsPath :
               StartsRel(written'.content.targetsPath[i][2])
    /\ \A i \in DOMAIN targetsPath' : StartsRel(targetsPath'[i][2])
    /\ (PathSubmitted /\ ~StartsRel(typed'.value)) =>
           /\ targetsPath' = targetsPath
           /\ idx' = idx
           /\ pc' = "path"
           /\ textError'

\* C18: every value of targetsPath in a written config starts with "./" or
\* "../"; an input that does not is never recorded, and the path of the
\* same target is asked again.
C18_PathsRelative == [][RelativeRule]_vars

C18_Witness ==
    /\ written.present
    /\ entry = Part001
    /\ \E i \in DOMAIN written.content.targetsPath :
           written.content.targetsPath[i][2] = <<"..", "x">>
    /\ Len(written.content.targetsPath) = 3

\* the user answered the "Add another sync group?" question in this step
AgainAnswered ==
    /\ pc = "again"
    /\ promptsShown' # promptsShown
    /\ cancelledAt' = cancelledAt

LoopRule ==
    /\ (pc # "again" /\ pc' = "again") =>
           (pc = "group" /\ Len(syncGroups') = Len(syncGroups) + 1)
    /\ (pc \in {"group", "again"} /\ pc' = "write") =>
           (AgainAnswered /\ addMore' = FALSE)
    /\ (AgainAnswered /\ addMore' = FALSE) =>
           (pc' = "write" /\ config'.sync.groups = syncGroups)
    /\ (AgainAnswered /\ addMore' = TRUE) => pc' = "group"
    /\ (GroupSubmitted /\ syncGroups' = syncGroups) => pc' = "group"
    /\ pc \in {"group", "again"} => pc' \in {"group", "again", "write", "exited"}

\* the write has been carried out with a sync list of at least one group
WroteGroups ==
    /\ writes = 1
    /\ config.sync.t = "array"
    /\ Len(config.sync.groups) >= 1
    /\ written.present => written.content = config

\* C19: the sync-group loop ends exactly when the user declines "add
\* another group?", which is asked only after a group was appended, and
\* repeats while the user affirms or a selection is rejected; with a user
\* who eventually submits a group and declines, the run reaches the write
\* with a sync list of at least one group.
C19_LoopEndsOnDecline ==
    /\ [][LoopRule]_vars
    /\ (pc = "group") ~> (cancelledAt # "none" \/ WroteGroups)

C19_Witness ==
    /\ WroteGroups
    /\ written.present
    /\ syncMode = "groups"
    /\ addMore = FALSE
    /\ Len(written.content.sync.groups) = 2

RerunRule ==
    /\ written.present => written' = written
    /\ written.present => \E f \in files : MatchesPattern(f)
    /\ (written.present /\ pc = "start" /\ pc' # pc) =>
           /\ hasConfigRet' = "true"
           /\ pc' \in {"end", "exited"}
           /\ writes' = 0
    /\ (written.present /\ runs > 1) => pc' # "write"

\* C20: once a run has written the config file, every later run in the
\* same directory finds the file through the config pattern, stops at the
\* existing-config gate and leaves the file as it is; a config file the
\* tool created is never overwritten.
C20_RerunKeepsFile == [][RerunRule]_vars

C20_Witness ==
    /\ runs = 2
    /\ written.present
    /\ hasConfigRet = "true"
    /\ pc = "exited"
    /\ writes = 0
    /\ manifest.state = "absent"

====
